---- MODULE Spec2Model ----
(***************************************************************************)
(* CurveAreaCalculator (src/curve_area_calculator_v2.py): the polygon      *)
(* object, the ray-casting inclusion predicate, the shoelace area, the     *)
(* grid and Monte Carlo estimators and compare_methods.                    *)
(*                                                                         *)
(* Numbers.  Python floats are IEEE-754 binary64: every +, -, *, / rounds  *)
(* its exact result to the nearest representable value, ties to even.      *)
(* The model keeps that rule and shrinks the format: a float is an         *)
(* integer count of quanta of 2^-FracBits, representable when it is        *)
(* m * 2^e with |m| < 2^MantBits and e >= 0.  Round(num, den) is the        *)
(* rounding of the rational num/den quanta.  Division by zero raises       *)
(* ZeroDivisionError, as Python's float and int division do.               *)
(***************************************************************************)
EXTENDS Integers, Sequences, FiniteSets, TLC

\* ------------------------------------------------------------ bounds
MantBits == 3      \* bits of significand (binary64 has 53)
FracBits == 6      \* the quantum is 2^-FracBits
DrawBits == 1      \* enumerated query points and draws are multiples of 2^-DrawBits
SmallCoord == 1    \* vertex coordinates 0..SmallCoord of the sampled polygons
AreaMaxCoord == 3  \* vertex coordinates 0..AreaMaxCoord for the shoelace sum
MaxSamples == 2    \* n_samples up to MaxSamples
MaxRes == 2        \* grid_resolution up to MaxRes
MaxSpc == 4        \* samples_per_cell up to MaxSpc
CellMaxRes == 3    \* grid_resolution up to CellMaxRes where the sums of cell areas are followed

\* ------------------------------------------------------------ floats
Pow2(n) == 2 ^ n

\* quanta per unit: the float 1.0
One == Pow2(FracBits)

Abs(a) == IF a < 0 THEN -a ELSE a

\* nearest integer to num/den (num >= 0, den > 0), ties to the even one
RoundNat(num, den) ==
    LET q == num \div den
        r == num % den
    IN  IF 2 * r > den \/ (2 * r = den /\ q % 2 = 1) THEN q + 1 ELSE q

\* one more than the largest significand
Significands == Pow2(MantBits)

\* the unit in the last place of num/den (num >= 0, den > 0): the power of
\* two at which it fits a MantBits-bit significand
RECURSIVE Ulp(_, _)
Ulp(num, den) == IF num < Significands * den THEN 1 ELSE 2 * Ulp(num, 2 * den)

\* round-to-nearest-even of the rational num/den (den # 0)
Round(num, den) ==
    LET s == IF (num < 0) # (den < 0) THEN -1 ELSE 1
        n == Abs(num)
        d == Abs(den)
        u == Ulp(n, d)
    IN  s * RoundNat(n, d * u) * u

Representable(v) == Round(v, 1) = v

fadd(a, b) == Round(a + b, 1)
fsub(a, b) == Round(a - b, 1)
fmul(a, b) == Round(a * b, One)
fdiv(a, b) == Round(a * One, b)

\* the float of a Python int, and int / int (true division)
Float(k) == Round(k * One, 1)
IntDiv(a, b) == Round(a * One, b)

\* the literals 0.5 and 0.1
Half == Round(One, 2)
Tenth == Round(One, 10)

\* ------------------------------------------------------------ inputs
\* the enumerated floats: the representable multiples of 2^-DrawBits
Step == One \div Pow2(DrawBits)
Lattice == {v \in 0..(5 * One) : v % Step = 0 /\ Representable(v)}

\* the enumerated floats from lo to hi, the two ends among them
Floats(lo, hi) ==
    IF lo > hi THEN {} ELSE {v \in Lattice : lo <= v /\ v <= hi} \cup {lo, hi}

GridPoints(m) == {<<Float(x), Float(y)>> : x \in 0..m, y \in 0..m}

\* vertex lists of length n over a point set
Lists(P, n) == [1..n -> P]

Triangles(m) == Lists(GridPoints(m), 3)

\* the axis-parallel rectangles with corners on the lattice, counter-clockwise
Rectangles(m) ==
    {<<<<Float(q[1]), Float(q[3])>>, <<Float(q[2]), Float(q[3])>>,
       <<Float(q[2]), Float(q[4])>>, <<Float(q[1]), Float(q[4])>>>> :
        q \in {r \in (0..m) \X (0..m) \X (0..m) \X (0..m) :
                  r[1] < r[2] /\ r[3] < r[4]}}

Square == <<<<Float(0), Float(0)>>, <<Float(4), Float(0)>>,
            <<Float(4), Float(4)>>, <<Float(0), Float(4)>>>>

\* the list started at index k + 1 (cyclic rotation by k)
Rotate(c, k) == [i \in 1..Len(c) |-> c[((i - 1 + k) % Len(c)) + 1]]

Reverse(c) == [i \in 1..Len(c) |-> c[Len(c) + 1 - i]]

SquareRotations == {Rotate(Square, k) : k \in 0..3}

\* three distinct points on one line
Collinear(c) ==
    /\ (c[2][1] - c[1][1]) * (c[3][2] - c[1][2])
         = (c[2][2] - c[1][2]) * (c[3][1] - c[1][1])
    /\ c[1] # c[2] /\ c[2] # c[3] /\ c[1] # c[3]

CollinearTriples(m) == {c \in Triangles(m) : Collinear(c)}

\* ------------------------------------------------------------ state
VARIABLES
    self,   \* the CurveAreaCalculator object (a record of its attributes)
    pc,     \* "new", "idle" (constructed), the position inside a running
            \* method, "done" (the call has ended) or "failed" (no object)
    frame,  \* the locals of the running grid_method or monte_carlo_method
    outer,  \* the locals of compare_methods when it is the caller
    ret     \* the outcome of the last call that ended

vars == <<self, pc, frame, outer, ret>>

NoSelf == [coordinates |-> <<>>, n_points |-> 0,
           min_x |-> 0, max_x |-> 0, min_y |-> 0, max_y |-> 0,
           bbox_width |-> 0, bbox_height |-> 0, bbox_area |-> 0]

NoFrame == [method |-> "none"]

NoRet == [method |-> "none", outcome |-> "none", error |-> "", line |-> 0]

Returned(m, v) ==
    [method |-> m, outcome |-> "returned", error |-> "", line |-> 0, value |-> v]

Raised(m, e, l) ==
    [method |-> m, outcome |-> "raised", error |-> e, line |-> l]

Init ==
    /\ self = NoSelf
    /\ pc = "new"
    /\ frame = NoFrame
    /\ outer = NoFrame
    /\ ret = NoRet

\* ------------------------------------------------------------ __init__
Min(S) == CHOOSE v \in S : \A w \in S : v <= w
Max(S) == CHOOSE v \in S : \A w \in S : v >= w

NewSelf(coordinates) ==
    LET x_coords == {coordinates[i][1] : i \in 1..Len(coordinates)}
        y_coords == {coordinates[i][2] : i \in 1..Len(coordinates)}
        w == fsub(Max(x_coords), Min(x_coords))
        h == fsub(Max(y_coords), Min(y_coords))
    IN  [coordinates |-> coordinates, n_points |-> Len(coordinates),
         min_x |-> Min(x_coords), max_x |-> Max(x_coords),
         min_y |-> Min(y_coords), max_y |-> Max(y_coords),
         bbox_width |-> w, bbox_height |-> h, bbox_area |-> fmul(w, h)]

\* lines 13-27: min() of an empty list raises ValueError (line 20); every
\* other list is accepted
Construct(coordinates) ==
    /\ IF Len(coordinates) = 0
       THEN /\ self' = [NoSelf EXCEPT !.coordinates = coordinates]
            /\ pc' = "failed"
            /\ ret' = Raised("__init__", "ValueError", 20)
       ELSE /\ self' = NewSelf(coordinates)
            /\ pc' = "idle"
            /\ ret' = Returned("__init__", 0)
    /\ UNCHANGED <<frame, outer>>

\* ------------------------------------------- point_in_polygon_ray_casting
\* line 41 with both operands of `and` evaluated
EdgeTestEager(pi, pj, x, y) ==
    LET d == fsub(pj[2], pi[2])
    IN  IF d = 0
        THEN [kind |-> "raise", inexact |-> FALSE]
        ELSE LET a == fsub(pj[1], pi[1])
                 b == fsub(y, pi[2])
                 m == fmul(a, b)
                 q == fdiv(m, d)
             IN  [kind |-> IF ((pi[2] > y) # (pj[2] > y)) /\ x < fadd(q, pi[1])
                           THEN "toggle" ELSE "skip",
                  inexact |-> FALSE]

\* line 41 for the edge (pj, pi): `and` evaluates its right operand, and so
\* the division, only when the left one holds
EdgeTest(pi, pj, x, y) ==
    IF (pi[2] > y) # (pj[2] > y)
    THEN LET a == fsub(pj[1], pi[1])
             b == fsub(y, pi[2])
             m == fmul(a, b)
             d == fsub(pj[2], pi[2])
         IN  IF d = 0
             THEN [kind |-> "raise", inexact |-> FALSE]
             ELSE LET q == fdiv(m, d)
                      x_intersect == fadd(q, pi[1])
                  IN  [kind |-> IF x < x_intersect THEN "toggle" ELSE "skip",
                       inexact |-> ~ (/\ a = pj[1] - pi[1]
                                      /\ b = y - pi[2]
                                      /\ m * One = a * b
                                      /\ d = pj[2] - pi[2]
                                      /\ q * d = m * One
                                      /\ x_intersect = q + pi[1])]
    ELSE [kind |-> "skip", inexact |-> FALSE]

\* the loop of lines 37-43 from index i on (1-based), j the previous index;
\* inexact: some operation of line 41 rounded its result
RECURSIVE RayLoop(_, _, _, _, _, _, _)
RayLoop(c, x, y, i, j, inside, inexact) ==
    IF i > Len(c)
    THEN [raised |-> FALSE, inside |-> inside, inexact |-> inexact]
    ELSE LET t == EdgeTest(c[i], c[j], x, y)
         IN  IF t.kind = "raise"
             THEN [raised |-> TRUE, inside |-> inside, inexact |-> inexact]
             ELSE RayLoop(c, x, y, i + 1, i,
                          IF t.kind = "toggle" THEN ~inside ELSE inside,
                          inexact \/ t.inexact)

\* the loop started with j = 0 and i = 1: the closing edge is never tested
RayCastingOpen(c, x, y) == RayLoop(c, x, y, 2, 1, FALSE, FALSE)

\* lines 34-45
point_in_polygon_ray_casting(c, x, y) ==
    RayLoop(c, x, y, 1, Len(c), FALSE, FALSE)

\* one call of the predicate on the constructed object
Classify(x, y) ==
    /\ LET r == point_in_polygon_ray_casting(self.coordinates, x, y)
       IN  ret' = IF r.raised
                  THEN Raised("point_in_polygon_ray_casting", "ZeroDivisionError", 41)
                  ELSE Returned("point_in_polygon_ray_casting",
                                [x |-> x, y |-> y, inside |-> r.inside,
                                 inexact |-> r.inexact])
    /\ pc' = "done"
    /\ UNCHANGED <<self, frame, outer>>

\* ------------------------------------------------------------ analytical_area
\* the loop of lines 155-157 from index i on, j the previous index;
\* inexact: some operation rounded its result
RECURSIVE ShoelaceLoop(_, _, _, _, _)
ShoelaceLoop(c, i, j, area, inexact) ==
    IF i > Len(c)
    THEN [area |-> area, inexact |-> inexact]
    ELSE LET s == fadd(c[j][1], c[i][1])
             d == fsub(c[j][2], c[i][2])
             t == fmul(s, d)
             a == fadd(area, t)
         IN  ShoelaceLoop(c, i + 1, i, a,
                          inexact \/ ~ (/\ s = c[j][1] + c[i][1]
                                        /\ d = c[j][2] - c[i][2]
                                        /\ t * One = s * d
                                        /\ a = area + t))

\* line 159 without abs()
AreaSigned(c) ==
    LET r == ShoelaceLoop(c, 1, Len(c), 0, FALSE)
        h == fdiv(r.area, 2 * One)
    IN  [area |-> h, inexact |-> r.inexact \/ h * 2 # r.area]

\* lines 152-159
analytical_area(c) ==
    LET r == ShoelaceLoop(c, 1, Len(c), 0, FALSE)
        h == fdiv(Abs(r.area), 2 * One)
    IN  [area |-> h, inexact |-> r.inexact \/ h * 2 # Abs(r.area)]

Analytical ==
    /\ ret' = Returned("analytical_area", analytical_area(self.coordinates))
    /\ pc' = "done"
    /\ UNCHANGED <<self, frame, outer>>

\* ------------------------------------------------------------ calls and returns
\* where a grid_method or monte_carlo_method call that ended leaves control
Back(outcome, back) ==
    IF outer.method = "compare_methods" /\ outcome = "returned" THEN back ELSE "done"

\* ------------------------------------------------------------ monte_carlo_method
\* random.uniform(a, b): some float N with a <= N <= b
Uniform(a, b) == Floats(a, b)

\* lines 120-122
McStart(n_samples) ==
    /\ frame' = [method |-> "monte_carlo_method", n_samples |-> n_samples,
                 inside_count |-> 0, drawn |-> 0, x |-> 0, y |-> 0,
                 inexact |-> FALSE]
    /\ pc' = "mc_loop"
    /\ UNCHANGED <<self, outer, ret>>

\* lines 124-127: the next iteration draws its point
McDraw ==
    /\ pc = "mc_loop"
    /\ frame.drawn < frame.n_samples
    /\ \E x \in Uniform(self.min_x, self.max_x), y \in Uniform(self.min_y, self.max_y) :
         frame' = [frame EXCEPT !.x = x, !.y = y]
    /\ pc' = "mc_drawn"
    /\ UNCHANGED <<self, outer, ret>>

\* the count after one more point was classified as `hit`
CountAlways(inside_count, hit) == inside_count + 1
CountInside(inside_count, hit) == IF hit THEN inside_count + 1 ELSE inside_count

\* lines 129-130: the drawn point is classified and counted; x and y are not
\* read again. inexact: some predicate call of this invocation rounded
McClassify ==
    /\ pc = "mc_drawn"
    /\ LET r == point_in_polygon_ray_casting(self.coordinates, frame.x, frame.y)
       IN  IF r.raised
           THEN /\ ret' = Raised("monte_carlo_method", "ZeroDivisionError", 41)
                /\ pc' = "done"
                /\ UNCHANGED frame
           ELSE /\ frame' = [frame EXCEPT
                               !.inside_count = CountInside(@, r.inside),
                               !.drawn = @ + 1, !.x = 0, !.y = 0,
                               !.inexact = @ \/ r.inexact]
                /\ pc' = "mc_loop"
                /\ UNCHANGED ret
    /\ UNCHANGED <<self, outer>>

\* line 134
Estimate(fraction_inside, bbox_area) == fmul(fraction_inside, bbox_area)

\* lines 133-146, after the loop
McReturn ==
    /\ pc = "mc_loop"
    /\ frame.drawn >= frame.n_samples
    /\ IF frame.n_samples = 0
       THEN /\ ret' = Raised("monte_carlo_method", "ZeroDivisionError", 133)
            /\ pc' = "done"
       ELSE LET fraction_inside == IntDiv(frame.inside_count, frame.n_samples)
            IN  /\ ret' = Returned("monte_carlo_method",
                            [area |-> Estimate(fraction_inside, self.bbox_area),
                             method |-> "Monte Carlo Simulation",
                             n_samples |-> frame.n_samples,
                             inside_count |-> frame.inside_count,
                             fraction_inside |-> fraction_inside,
                             bounding_box_area |-> self.bbox_area,
                             computation_time |-> 0])
                /\ pc' = Back("returned", "cmp_mc_back")
    /\ UNCHANGED <<self, frame, outer>>

\* ------------------------------------------------------------ grid_method
\* int(np.sqrt(n)) for n >= 0
RECURSIVE ISqrtFrom(_, _)
ISqrtFrom(n, s) == IF (s + 1) * (s + 1) > n THEN s ELSE ISqrtFrom(n, s + 1)
ISqrt(n) == ISqrtFrom(n, 0)

\* random.uniform(-0.1, 0.1), enumerated at its two ends
JitterValues == {-Tenth, Tenth}

\* the jitter draws of one invocation, one pair per sample; enumerated: the
\* lists that give every sample the same pair
JitterLists(n) == {[k \in 1..n |-> <<jx, jy>>] : jx \in JitterValues, jy \in JitterValues}

\* lines 69-77: the offsets in the unit cell, i the outer and j the inner index
SampleCoords(samples_per_side, jitter) ==
    [k \in 1..(samples_per_side * samples_per_side) |->
        LET i == (k - 1) \div samples_per_side
            j == (k - 1) % samples_per_side
            offset_x == fdiv(jitter[k][1], Float(samples_per_side))
            offset_y == fdiv(jitter[k][2], Float(samples_per_side))
        IN  <<fadd(fdiv(fadd(Float(i), Half), Float(samples_per_side)), offset_x),
              fadd(fdiv(fadd(Float(j), Half), Float(samples_per_side)), offset_y)>>]

\* lines 58-77
\* line 47: the arguments of a call that gets no further than lines 53-68
GridArgs(grid_resolution, samples_per_cell) ==
    [method |-> "grid_method",
     grid_resolution |-> grid_resolution,
     samples_per_cell |-> samples_per_cell]

GridStart(grid_resolution, samples_per_cell) ==
    /\ IF grid_resolution = 0
       THEN /\ ret' = Raised("grid_method", "ZeroDivisionError", 60)
            /\ pc' = "done"
            /\ frame' = GridArgs(grid_resolution, samples_per_cell)
       ELSE IF samples_per_cell < 0
       THEN /\ ret' = Raised("grid_method", "ValueError", 68)
            /\ pc' = "done"
            /\ frame' = GridArgs(grid_resolution, samples_per_cell)
       ELSE LET cell_width == fdiv(self.bbox_width, Float(grid_resolution))
                cell_height == fdiv(self.bbox_height, Float(grid_resolution))
                samples_per_side == ISqrt(samples_per_cell)
            IN  \E jitter \in JitterLists(samples_per_side * samples_per_side) :
                    /\ frame' = [method |-> "grid_method",
                                 grid_resolution |-> grid_resolution,
                                 samples_per_cell |-> samples_per_cell,
                                 cell_width |-> cell_width,
                                 cell_height |-> cell_height,
                                 cell_area |-> fmul(cell_width, cell_height),
                                 total_area |-> 0,
                                 cells_processed |-> 0,
                                 sample_coords |-> SampleCoords(samples_per_side, jitter),
                                 inexact |-> FALSE]
                    /\ pc' = "grid_loop"
                    /\ UNCHANGED ret
    /\ UNCHANGED <<self, outer>>

\* the cells left to visit: range(grid_resolution) twice
CellsToVisit(grid_resolution) ==
    IF grid_resolution > 0 THEN grid_resolution * grid_resolution ELSE 0

\* lines 82-89 with the cell index i + 1 in place of i
TestPointNextCell(i, j, s) ==
    LET cell_left == fadd(self.min_x, fmul(Float(i + 1), frame.cell_width))
        cell_bottom == fadd(self.min_y, fmul(Float(j), frame.cell_height))
    IN  <<fadd(cell_left, fmul(s[1], frame.cell_width)),
          fadd(cell_bottom, fmul(s[2], frame.cell_height))>>

\* lines 82-92 for the sample (sx, sy) of cell (i, j)
TestPoint(i, j, s) ==
    LET cell_left == fadd(self.min_x, fmul(Float(i), frame.cell_width))
        cell_bottom == fadd(self.min_y, fmul(Float(j), frame.cell_height))
    IN  <<fadd(cell_left, fmul(s[1], frame.cell_width)),
          fadd(cell_bottom, fmul(s[2], frame.cell_height))>>

\* lines 79-97: one cell
GridCell ==
    /\ pc = "grid_loop"
    /\ frame.cells_processed < CellsToVisit(frame.grid_resolution)
    /\ LET i == frame.cells_processed \div frame.grid_resolution
           j == frame.cells_processed % frame.grid_resolution
           n == Len(frame.sample_coords)
           test == [k \in 1..n |->
                      LET p == TestPoint(i, j, frame.sample_coords[k])
                      IN  point_in_polygon_ray_casting(self.coordinates, p[1], p[2])]
           inside_count == Cardinality({k \in 1..n : test[k].inside})
       IN  IF \E k \in 1..n : test[k].raised
           THEN /\ ret' = Raised("grid_method", "ZeroDivisionError", 41)
                /\ pc' = "done"
                /\ UNCHANGED frame
           ELSE IF n = 0
           THEN /\ ret' = Raised("grid_method", "ZeroDivisionError", 95)
                /\ pc' = "done"
                /\ UNCHANGED frame
           ELSE /\ frame' = [frame EXCEPT
                               !.total_area =
                                   fadd(@, fmul(IntDiv(inside_count, n), frame.cell_area)),
                               !.cells_processed = @ + 1,
                               !.inexact = @ \/ \E k \in 1..n : test[k].inexact]
                /\ UNCHANGED <<pc, ret>>
    /\ UNCHANGED <<self, outer>>

\* the 'samples_per_cell' entry of the result
ReportedRequested(sample_coords, samples_per_cell) == samples_per_cell
ReportedSamples(sample_coords, samples_per_cell) == Len(sample_coords)

\* lines 99-108, after the loops
GridReturn ==
    /\ pc = "grid_loop"
    /\ frame.cells_processed >= CellsToVisit(frame.grid_resolution)
    /\ ret' = Returned("grid_method",
                [area |-> frame.total_area,
                 method |-> "Intelligent Grid Sampling",
                 grid_resolution |-> frame.grid_resolution,
                 samples_per_cell |->
                     ReportedSamples(frame.sample_coords, frame.samples_per_cell),
                 total_cells |-> frame.cells_processed,
                 computation_time |-> 0])
    /\ pc' = Back("returned", "cmp_grid_back")
    /\ UNCHANGED <<self, frame, outer>>

\* ------------------------------------------------------------ compare_methods
\* lines 178 and 191
RelativeError(area, true_area) ==
    fmul(fdiv(Abs(fsub(area, true_area)), true_area), Float(100))

\* lines 166-174
CmpStart(grid_resolution, samples_per_cell, monte_carlo_samples) ==
    /\ outer' = [method |-> "compare_methods",
                 grid_resolution |-> grid_resolution,
                 samples_per_cell |-> samples_per_cell,
                 monte_carlo_samples |-> monte_carlo_samples,
                 true_area |-> analytical_area(self.coordinates).area]
    /\ pc' = "cmp_call_grid"
    /\ UNCHANGED <<self, frame, ret>>

\* line 177: the call
CmpGrid ==
    /\ pc = "cmp_call_grid"
    /\ GridStart(outer.grid_resolution, outer.samples_per_cell)

\* line 178, and the lines that print the grid result
CmpGridError ==
    /\ pc = "cmp_grid_back"
    /\ IF outer.true_area = 0
       THEN /\ ret' = Raised("compare_methods", "ZeroDivisionError", 178)
            /\ pc' = "done"
            /\ UNCHANGED outer
       ELSE /\ outer' = [method |-> "compare_methods",
                         grid_resolution |-> outer.grid_resolution,
                         samples_per_cell |-> outer.samples_per_cell,
                         monte_carlo_samples |-> outer.monte_carlo_samples,
                         true_area |-> outer.true_area,
                         grid_area |-> ret.value.area,
                         grid_error |-> RelativeError(ret.value.area, outer.true_area)]
            /\ pc' = "cmp_call_mc"
            /\ UNCHANGED ret
    /\ UNCHANGED <<self, frame>>

\* line 190: the call
CmpMc ==
    /\ pc = "cmp_call_mc"
    /\ McStart(outer.monte_carlo_samples)

\* line 191, and the lines that print the Monte Carlo result
CmpMcError ==
    /\ pc = "cmp_mc_back"
    /\ IF outer.true_area = 0
       THEN ret' = Raised("compare_methods", "ZeroDivisionError", 191)
       ELSE ret' = Returned("compare_methods",
                      [true_area |-> outer.true_area,
                       grid_area |-> outer.grid_area,
                       grid_error |-> outer.grid_error,
                       mc_area |-> ret.value.area,
                       mc_error |-> RelativeError(ret.value.area, outer.true_area)])
    /\ pc' = "done"
    /\ UNCHANGED <<self, frame, outer>>

\* ------------------------------------------------------------ specifications
\* the parameters a caller may pass
SampleCounts == -1..MaxSamples
Resolutions == -1..MaxRes
CellSamples == -1..MaxSpc

\* triangles, and the square from each starting vertex
PredicateInputs == Triangles(SmallCoord) \cup SquareRotations

SampledInputs == UNION {Lists(GridPoints(SmallCoord), n) : n \in 0..3}

\* the whole class on small polygons
Next ==
    \/ pc = "new" /\ \E c \in SampledInputs : Construct(c)
    \/ pc = "idle" /\ \E p \in GridPoints(SmallCoord) : Classify(p[1], p[2])
    \/ pc = "idle" /\ Analytical
    \/ pc = "idle" /\ \E n \in SampleCounts : McStart(n)
    \/ McDraw
    \/ McClassify
    \/ McReturn
    \/ pc = "idle" /\ \E r \in Resolutions, s \in CellSamples : GridStart(r, s)
    \/ GridCell
    \/ GridReturn

Spec == Init /\ [][Next]_vars

\* compare_methods on small polygons
NextCompare ==
    \/ pc = "new" /\ \E c \in Triangles(SmallCoord) : Construct(c)
    \/ pc = "idle" /\ \E r \in 1..MaxRes, s \in 1..MaxSpc, n \in 1..MaxSamples :
                          CmpStart(r, s, n)
    \/ CmpGrid
    \/ GridCell
    \/ GridReturn
    \/ CmpGridError
    \/ CmpMc
    \/ McDraw
    \/ McClassify
    \/ McReturn
    \/ CmpMcError

SpecCompare == Init /\ [][NextCompare]_vars

\* query points in and around the polygons
QueryPoints ==
    (Floats(0, Float(SmallCoord)) \X Floats(0, Float(SmallCoord)))
        \cup {<<Float(2), Float(2)>>, <<Float(5), Float(5)>>, <<-One, -One>>}

NextPredicate ==
    \/ pc = "new" /\ \E c \in PredicateInputs : Construct(c)
    \/ pc = "idle" /\ \E p \in QueryPoints : Classify(p[1], p[2])

SpecPredicate == Init /\ [][NextPredicate]_vars

\* the shoelace sum on triangles
NextArea ==
    \/ pc = "new" /\ \E c \in Triangles(AreaMaxCoord) : Construct(c)
    \/ pc = "idle" /\ Analytical

SpecArea == Init /\ [][NextArea]_vars

\* monte_carlo_method on triangles and on the square, with every sample count
NextMC ==
    \/ pc = "new" /\ \E c \in PredicateInputs : Construct(c)
    \/ pc = "idle" /\ \E n \in SampleCounts : McStart(n)
    \/ McDraw
    \/ McClassify
    \/ McReturn

SpecMC == Init /\ [][NextMC]_vars

\* grid_method on triangles, with every resolution and sample request
NextGrid ==
    \/ pc = "new" /\ \E c \in Triangles(SmallCoord) : Construct(c)
    \/ pc = "idle" /\ \E r \in Resolutions, s \in CellSamples : GridStart(r, s)
    \/ GridCell
    \/ GridReturn

SpecGrid == Init /\ [][NextGrid]_vars

\* the sample requests that int(np.sqrt(.)) ** 2 leaves as they are
SquareCounts == {k * k : k \in 1..ISqrt(MaxSpc)}

\* grid_method with valid parameters on triangles (partly covered cells) and
\* on rectangles (fully covered cells)
NextCells ==
    \/ pc = "new" /\ \E c \in Triangles(SmallCoord) \cup Rectangles(AreaMaxCoord) :
                         Construct(c)
    \/ pc = "idle" /\ \E r \in 1..CellMaxRes, s \in SquareCounts : GridStart(r, s)
    \/ GridCell
    \/ GridReturn

SpecCells == Init /\ [][NextCells]_vars

\* the three methods on three collinear points, with valid parameters
NextCollinear ==
    \/ pc = "new" /\ \E c \in CollinearTriples(AreaMaxCoord) : Construct(c)
    \/ pc = "idle" /\ Analytical
    \/ pc = "idle" /\ McStart(MaxSamples)
    \/ McDraw
    \/ McClassify
    \/ McReturn
    \/ pc = "idle" /\ \E r \in 1..MaxRes, s \in SquareCounts : GridStart(r, s)
    \/ GridCell
    \/ GridReturn

SpecCollinear == Init /\ [][NextCollinear]_vars

\* ------------------------------------------------------------ properties
\* the call that has just ended
Ended(m) == pc = "done" /\ ret.method = m

\* the edges (i, previous index) that the claim counts for the point (x, y)
CrossingEdges(c, x, y) ==
    {i \in 1..Len(c) :
        LET j == IF i = 1 THEN Len(c) ELSE i - 1
            xi == c[i][1]
            yi == c[i][2]
            xj == c[j][1]
            yj == c[j][2]
        IN  /\ (yi > y) # (yj > y)
            /\ x < fadd(fdiv(fmul(fsub(xj, xi), fsub(y, yi)), fsub(yj, yi)), xi)}

HorizontalEdges(c) ==
    {i \in 1..Len(c) : c[i][2] = c[IF i = 1 THEN Len(c) ELSE i - 1][2]}

\* C1: for a polygon of at least three vertices and any query point the
\* predicate ends without an error, and it answers "inside" exactly when the
\* number of edges (i, previous index) with (yi > y) != (yj > y) and
\* x < (xj - xi) * (y - yi) / (yj - yi) + xi is odd; an edge with yi = yj is
\* not among the counted ones and raises no division by zero.
C1_RayCastingParity ==
    (Ended("point_in_polygon_ray_casting") /\ self.n_points >= 3) =>
        /\ ret.outcome = "returned"
        /\ ret.value.inside
             <=> (Cardinality(CrossingEdges(self.coordinates,
                                            ret.value.x, ret.value.y)) % 2 = 1)
        /\ HorizontalEdges(self.coordinates)
             \cap CrossingEdges(self.coordinates, ret.value.x, ret.value.y) = {}

\* a polygon with a horizontal edge and a point the predicate puts inside
C1_Witness ==
    /\ Ended("point_in_polygon_ray_casting")
    /\ self.n_points >= 3
    /\ HorizontalEdges(self.coordinates) # {}
    /\ ret.outcome = "returned"
    /\ ret.value.inside
    /\ Cardinality(CrossingEdges(self.coordinates, ret.value.x, ret.value.y)) = 1

\* C2 as the specification states it: analytical_area is never negative and
\* returns the same value for a vertex list and for its reverse.
C2_ReversalExact ==
    Ended("analytical_area") =>
        /\ ret.value.area >= 0
        /\ analytical_area(Reverse(self.coordinates)).area = ret.value.area

\* C2: analytical_area is never negative, and it returns the same value for a
\* vertex list and for its reverse whenever no floating-point operation of
\* either computation rounds its result.
C2_ReversalUpToRounding ==
    Ended("analytical_area") =>
        /\ ret.value.area >= 0
        /\ (~ret.value.inexact
              /\ ~analytical_area(Reverse(self.coordinates)).inexact)
             => analytical_area(Reverse(self.coordinates)).area = ret.value.area

\* a triangle of positive area, not its own reverse, computed without rounding
C2_Witness ==
    /\ Ended("analytical_area")
    /\ ret.value.area > 0
    /\ ~ret.value.inexact
    /\ ~analytical_area(Reverse(self.coordinates)).inexact
    /\ Reverse(self.coordinates) # self.coordinates

\* C3: for a polygon of at least three vertices and any query point, the
\* predicate gives the same answer for every cyclic rotation of the vertex
\* list; for every rotation of the square (0,0),(4,0),(4,4),(0,4) it puts
\* (2,2) inside and (5,5) outside.
C3_RotationInvariant ==
    (Ended("point_in_polygon_ray_casting") /\ self.n_points >= 3
        /\ ret.outcome = "returned") =>
        /\ \A k \in 0..(self.n_points - 1) :
             LET r == point_in_polygon_ray_casting(Rotate(self.coordinates, k),
                                                   ret.value.x, ret.value.y)
             IN  ~r.raised /\ r.inside = ret.value.inside
        /\ (self.coordinates \in SquareRotations
              /\ ret.value.x = Float(2) /\ ret.value.y = Float(2))
             => ret.value.inside
        /\ (self.coordinates \in SquareRotations
              /\ ret.value.x = Float(5) /\ ret.value.y = Float(5))
             => ~ret.value.inside

\* the square started at its third vertex, with (2,2) inside
C3_Witness ==
    /\ Ended("point_in_polygon_ray_casting")
    /\ self.coordinates = Rotate(Square, 2)
    /\ ret.outcome = "returned"
    /\ ret.value.x = Float(2) /\ ret.value.y = Float(2)
    /\ ret.value.inside

\* the running or ended monte_carlo_method call was given n_samples >= 1
McValid == frame.method = "monte_carlo_method" /\ frame.n_samples >= 1

\* C4, in every state of a call with n_samples >= 1: a drawn point lies in
\* the bounding box, the count never exceeds the number of classified points,
\* and the call returns after exactly n_samples classifications with
\* area = (inside_count / n_samples) * bbox_area, 0 <= area <= bbox_area, and
\* with the n_samples, inside_count, fraction_inside and bounding_box_area of
\* that formula in its result.
C4_McState ==
    McValid =>
        /\ pc = "mc_drawn" =>
             /\ self.min_x <= frame.x /\ frame.x <= self.max_x
             /\ self.min_y <= frame.y /\ frame.y <= self.max_y
        /\ 0 <= frame.inside_count
        /\ frame.inside_count <= frame.drawn
        /\ frame.drawn <= frame.n_samples
        /\ Ended("monte_carlo_method") =>
             /\ ret.outcome = "returned"
             /\ frame.drawn = frame.n_samples
             /\ ret.value.n_samples = frame.n_samples
             /\ ret.value.inside_count = frame.inside_count
             /\ ret.value.bounding_box_area = self.bbox_area
             /\ ret.value.fraction_inside
                  = IntDiv(ret.value.inside_count, ret.value.n_samples)
             /\ ret.value.area
                  = fmul(ret.value.fraction_inside, ret.value.bounding_box_area)
             /\ 0 <= ret.value.area
             /\ ret.value.area <= self.bbox_area

\* C4, in every step that classifies a drawn point: the count grows by one
\* exactly when the inclusion predicate puts the point inside.
C4_McStep ==
    (McValid /\ pc = "mc_drawn" /\ pc' = "mc_loop") =>
        /\ frame'.drawn = frame.drawn + 1
        /\ frame'.inside_count
             = frame.inside_count
                 + (IF point_in_polygon_ray_casting(self.coordinates,
                                                    frame.x, frame.y).inside
                    THEN 1 ELSE 0)

\* C4: for every polygon and every n_samples >= 1, monte_carlo_method
\* classifies exactly n_samples points drawn inside the bounding box, counts
\* those the predicate puts inside, and returns
\* area = (inside_count / n_samples) * bbox_area together with the values used
\* in that formula, with 0 <= inside_count <= n_samples and
\* 0 <= area <= bbox_area.
C4_MonteCarloEstimate == [](C4_McState) /\ [][C4_McStep]_vars

\* two samples in a bounding box of area above 1, one inside and one outside
C4_Witness ==
    /\ Ended("monte_carlo_method")
    /\ McValid
    /\ ret.outcome = "returned"
    /\ ret.value.n_samples = 2
    /\ ret.value.inside_count = 1
    /\ self.bbox_area > One
    /\ 0 < ret.value.area /\ ret.value.area < self.bbox_area

\* the ended grid_method call was given grid_resolution >= 1 and
\* samples_per_cell >= 1
GridValid ==
    /\ frame.method = "grid_method"
    /\ frame.grid_resolution >= 1
    /\ frame.samples_per_cell >= 1

\* C5: for grid_resolution >= 1 and samples_per_cell >= 1 grid_method returns
\* a result whose samples_per_cell is floor(sqrt(requested))^2, whose
\* grid_resolution is the requested one and whose total_cells is
\* grid_resolution * grid_resolution, the number of cells processed; while it
\* runs, no more cells than that have been processed.
C5_GridReport ==
    GridValid =>
        /\ pc = "grid_loop" =>
             frame.cells_processed <= frame.grid_resolution * frame.grid_resolution
        /\ Ended("grid_method") =>
             /\ ret.outcome = "returned"
             /\ \E k \in 1..frame.samples_per_cell :
                  /\ k * k <= frame.samples_per_cell
                  /\ frame.samples_per_cell < (k + 1) * (k + 1)
                  /\ ret.value.samples_per_cell = k * k
             /\ ret.value.grid_resolution = frame.grid_resolution
             /\ ret.value.total_cells = frame.grid_resolution * frame.grid_resolution
             /\ frame.cells_processed = ret.value.total_cells

\* three samples requested and one used, on a lattice of four cells
C5_Witness ==
    /\ Ended("grid_method")
    /\ GridValid
    /\ ret.outcome = "returned"
    /\ frame.samples_per_cell = 3
    /\ ret.value.samples_per_cell = 1
    /\ ret.value.grid_resolution = 2
    /\ ret.value.total_cells = 4
    /\ ret.value.area > 0

\* the first line of the cell loop of grid_method
CellLoopLine == 79

\* C6: on a polygon, monte_carlo_method with n_samples = 0, and grid_method
\* with grid_resolution <= 0 or samples_per_cell < 1, never enter a sampling loop
\* iteration and never return: each ends in an error raised before the first
\* cell or sample is processed.
C6_InvalidRejected ==
    /\ (self.n_points >= 3
          /\ frame.method = "monte_carlo_method" /\ frame.n_samples = 0) =>
         /\ pc # "mc_drawn"
         /\ frame.drawn = 0
         /\ Ended("monte_carlo_method") => ret.outcome = "raised"
    /\ (self.n_points >= 3
          /\ frame.method = "grid_method"
          /\ (frame.grid_resolution <= 0 \/ frame.samples_per_cell < 1)
          /\ Ended("grid_method")) =>
         /\ ret.outcome = "raised"
         /\ ret.line < CellLoopLine

\* C7: a vertex list of fewer than three vertices never yields an object: its
\* construction fails, so no method can run on it.
C7_FewVerticesRejected ==
    (pc # "new" /\ Len(self.coordinates) < 3) => pc = "failed"

\* the entries of a grid result that the source defines
GridResultKeys ==
    {"area", "method", "grid_resolution", "samples_per_cell", "total_cells",
     "computation_time"}

\* C8: on a polygon with a bounding box of zero width or zero height, grid_method with
\* grid_resolution >= 1 and samples_per_cell >= 1 returns area 0 without
\* raising, and its result has an entry, beyond the six of every grid result,
\* that flags the degenerate bounding box.
C8_DegenerateBoxFlagged ==
    (Ended("grid_method") /\ GridValid /\ self.n_points >= 3
        /\ (self.bbox_width = 0 \/ self.bbox_height = 0)) =>
        /\ ret.outcome = "returned"
        /\ ret.value.area = 0
        /\ DOMAIN ret.value \ GridResultKeys # {}

\* C9 as the specification states it: on three collinear points
\* analytical_area returns 0, no sample point is classified inside, and
\* grid_method and monte_carlo_method return area 0 without raising.
C9_CollinearZero ==
    /\ Ended("analytical_area") => ret.value.area = 0
    /\ frame.method = "monte_carlo_method" => frame.inside_count = 0
    /\ frame.method = "grid_method" => frame.total_area = 0
    /\ (Ended("grid_method") \/ Ended("monte_carlo_method")) =>
         ret.outcome = "returned" /\ ret.value.area = 0

\* C9: on three collinear points analytical_area returns 0 whenever none of
\* its floating-point operations rounds; grid_method and monte_carlo_method
\* with valid parameters return without raising, and they classify no sample
\* point inside and return area 0 whenever the bounding box has zero area or
\* no operation of the inclusion predicate rounds.
C9_CollinearZeroUpToRounding ==
    /\ (Ended("analytical_area") /\ ~ret.value.inexact) => ret.value.area = 0
    /\ (frame.method = "monte_carlo_method" /\ ~frame.inexact) =>
         frame.inside_count = 0
    /\ (frame.method = "grid_method"
          /\ (self.bbox_area = 0 \/ ~frame.inexact)) => frame.total_area = 0
    /\ (Ended("grid_method") \/ Ended("monte_carlo_method")) =>
         /\ ret.outcome = "returned"
         /\ (self.bbox_area = 0 \/ ~frame.inexact) => ret.value.area = 0

\* three points on a slanted line, every sample classified without rounding
C9_Witness ==
    /\ Ended("monte_carlo_method")
    /\ self.bbox_area > 0
    /\ ret.outcome = "returned"
    /\ frame.drawn = MaxSamples
    /\ ~frame.inexact
    /\ ret.value.area = 0

\* C10: compare_methods ends without an error when the exact area is zero
\* (no division by it is performed), and when the exact area is not zero the
\* two relative errors it reports are |estimate - exact| / exact * 100.
C10_ZeroAreaUndefined ==
    (pc = "done" /\ outer.method = "compare_methods") =>
        /\ ret.method = "compare_methods" => ret.outcome = "returned"
        /\ (ret.method = "compare_methods" /\ ret.outcome = "returned"
              /\ ret.value.true_area # 0) =>
             /\ ret.value.grid_error
                  = RelativeError(ret.value.grid_area, ret.value.true_area)
             /\ ret.value.mc_error
                  = RelativeError(ret.value.mc_area, ret.value.true_area)

\* a grid_method call with valid parameters that is in, or has left, its
\* cell loop
InCells == GridValid /\ (pc = "grid_loop" \/ Ended("grid_method"))

\* every unit-cell offset lies strictly between 0 and 1 in both coordinates
OffsetsInUnitCell ==
    \A k \in 1..Len(frame.sample_coords) :
        /\ 0 < frame.sample_coords[k][1] /\ frame.sample_coords[k][1] < One
        /\ 0 < frame.sample_coords[k][2] /\ frame.sample_coords[k][2] < One

\* every tested point of the cell the loop is about to process, cell (i, j),
\* lies in that cell and in the bounding box
TestedPointsInCell ==
    (pc = "grid_loop"
        /\ frame.cells_processed < frame.grid_resolution * frame.grid_resolution) =>
        LET i == frame.cells_processed \div frame.grid_resolution
            j == frame.cells_processed % frame.grid_resolution
            cell_left == fadd(self.min_x, fmul(Float(i), frame.cell_width))
            cell_bottom == fadd(self.min_y, fmul(Float(j), frame.cell_height))
        IN  \A k \in 1..Len(frame.sample_coords) :
                LET p == TestPoint(i, j, frame.sample_coords[k])
                IN  /\ cell_left <= p[1]
                    /\ p[1] <= fadd(cell_left, frame.cell_width)
                    /\ cell_bottom <= p[2]
                    /\ p[2] <= fadd(cell_bottom, frame.cell_height)
                    /\ self.min_x <= p[1] /\ p[1] <= self.max_x
                    /\ self.min_y <= p[2] /\ p[2] <= self.max_y

\* one step of the cell loop keeps the offsets and adds coverage * cell_area
\* for a coverage k / sample_count with 0 <= k <= sample_count
CellStep ==
    (InCells /\ pc' = "grid_loop" /\ frame' # frame) =>
        /\ frame'.sample_coords = frame.sample_coords
        /\ frame'.cells_processed = frame.cells_processed + 1
        /\ \E k \in 0..Len(frame.sample_coords) :
             LET coverage == IntDiv(k, Len(frame.sample_coords))
             IN  /\ 0 <= coverage /\ coverage <= One
                 /\ frame'.total_area
                      = fadd(frame.total_area, fmul(coverage, frame.cell_area))

\* the floating-point sum of n terms a, added one by one
RECURSIVE RoundedSum(_, _)
RoundedSum(n, a) == IF n = 0 THEN 0 ELSE fadd(RoundedSum(n - 1, a), a)

\* C11 as the specification states it: the offsets are built once and kept,
\* lie strictly inside the unit cell, every tested point lies in its cell and
\* in the bounding box, every coverage is in [0, 1], total_area is between 0
\* and cells_processed * cell_area throughout the cell loop, and the final
\* area is between 0 and bbox_area.
C11_CellBoundsExact ==
    /\ [](InCells =>
            /\ OffsetsInUnitCell
            /\ TestedPointsInCell
            /\ 0 <= frame.total_area
            /\ frame.total_area <= frame.cells_processed * frame.cell_area
            /\ Ended("grid_method") =>
                 /\ ret.outcome = "returned"
                 /\ 0 <= ret.value.area /\ ret.value.area <= self.bbox_area)
    /\ [][CellStep]_vars

\* C11: the offsets are built once and kept, lie strictly inside the unit
\* cell, every tested point lies in its cell and in the bounding box, every
\* coverage is in [0, 1], and throughout the cell loop total_area is between 0
\* and the floating-point sum of cells_processed terms cell_area, so the final
\* area is between 0 and the floating-point sum of grid_resolution^2 terms
\* cell_area (which is bbox_area up to rounding).
C11_CellBoundsRounded ==
    /\ [](InCells =>
            /\ OffsetsInUnitCell
            /\ TestedPointsInCell
            /\ 0 <= frame.total_area
            /\ frame.total_area <= RoundedSum(frame.cells_processed, frame.cell_area)
            /\ Ended("grid_method") =>
                 /\ ret.outcome = "returned"
                 /\ 0 <= ret.value.area
                 /\ ret.value.area
                      <= RoundedSum(frame.grid_resolution * frame.grid_resolution,
                                    frame.cell_area))
    /\ [][CellStep]_vars

\* a rectangle whose four cells, of four samples each, were all fully covered
C11_Witness ==
    /\ Ended("grid_method")
    /\ GridValid
    /\ ret.outcome = "returned"
    /\ frame.grid_resolution = 2
    /\ Len(frame.sample_coords) = 4
    /\ self.bbox_area > 0
    /\ ret.value.area = RoundedSum(4, frame.cell_area)

====
